---------------------------- MODULE Spec2Model ----------------------------
(***************************************************************************)
(* A model of ring, an ICMP echo utility (src/src/main.rs).                *)
(*                                                                         *)
(*   - the packet codec: compute_checksum and create_icmp_packet, as pure  *)
(*     operators over byte sequences (CodecSpec applies them to bounded    *)
(*     inputs);                                                            *)
(*   - the probe engine: create_socket, send_and_receive_ring and the run  *)
(*     loop and summary of run_ring, as a state machine whose program      *)
(*     counter pc follows the single thread of control (Spec, FairSpec).   *)
(*                                                                         *)
(* Bytes are 0..255, u16 values 0..65535.  A u32 is kept as its two 16-bit *)
(* halves [hi, lo] so that additions wrap at 2^32 as the release build     *)
(* does (the debug build panics instead; either needs a buffer of more     *)
(* than 131,074 bytes, whose words can sum to 2^32).  A Duration is a      *)
(* number of nanoseconds.                                                  *)
(***************************************************************************)
EXTENDS Integers, Sequences, FiniteSets, TLC

VARIABLES
    \* codec harness
    data,       \* the input byte sequence handed to the codec
    cres,       \* what the codec returned for it
    \* run_ring
    req,        \* the arguments of run_ring (immutable)
    pc,         \* position of the thread of control
    packet,     \* let packet (line 61)
    socket,     \* let socket (line 62)
    count,      \* mut count
    sent,       \* let mut sent
    received,   \* let mut received
    min_rtt,    \* let mut min_rtt
    max_rtt,    \* let mut max_rtt
    total_rtt,  \* let mut total_rtt
    result,     \* let result (line 76)
    out,        \* the lines printed so far
    outcomes,   \* history: the outcome of every attempt folded so far
    slept       \* history: seconds spent in sleep (line 101)

runVars == <<req, pc, packet, socket, count, sent, received, min_rtt, max_rtt,
             total_rtt, result, out, outcomes, slept>>
vars == <<data, cres, req, pc, packet, socket, count, sent, received, min_rtt,
          max_rtt, total_rtt, result, out, outcomes, slept>>

----------------------------------------------------------------------------
(* Bounds of the model *)

\* longest byte sequence handed to the codec
MaxLen == 6
\* largest attempt count; also the number of attempts after which a
\* continuous run is no longer followed
MaxCount == 4

\* byte values the inputs are drawn from: zero, small, the sign bit, all ones
ByteVals == {0, 1, 128, 255}

\* the test vectors of the specification (section 8)
Vec8 == <<8, 0, 0, 0, 0, 1, 0, 1>>
Vec3 == <<8, 0, 1>>

RECURSIVE SeqsOfLen(_, _)
SeqsOfLen(S, n) ==
    IF n = 0 THEN {<<>>}
    ELSE {Append(s, b) : s \in SeqsOfLen(S, n - 1), b \in S}

SeqsUpTo(S, n) == UNION {SeqsOfLen(S, k) : k \in 0..n}

Buffers == SeqsUpTo(ByteVals, MaxLen) \cup {Vec8, Vec3}

----------------------------------------------------------------------------
(* Fixed-width arithmetic *)

U16Mod == 65536
U8Mod == 256

\* a u32 as its halves: value = hi * 2^16 + lo
U32Zero == [hi |-> 0, lo |-> 0]

\* `x as u32` for a u16 x
U32FromU16(x) == [hi |-> 0, lo |-> x]

\* wrapping u32 addition
U32Add(a, b) ==
    LET lo == a.lo + b.lo
        hi == a.hi + b.hi + (lo \div U16Mod)
    IN  [hi |-> hi % U16Mod, lo |-> lo % U16Mod]

\* u16::from_be_bytes([b0, b1])
FromBeBytes(b0, b1) == b0 * U8Mod + b1

----------------------------------------------------------------------------
(* compute_checksum (lines 185-203) *)

\* the for loop over data.chunks_exact(2): chunk k is bytes 2k-1, 2k
RECURSIVE SumChunks(_, _, _)
SumChunks(d, k, sum) ==
    IF 2 * k > Len(d) THEN sum
    ELSE SumChunks(d, k + 1,
                   U32Add(sum, U32FromU16(FromBeBytes(d[2 * k - 1], d[2 * k]))))

\* chunks.remainder(): the bytes after the last whole chunk
Remainder(d) == SubSeq(d, 2 * (Len(d) \div 2) + 1, Len(d))

\* if let Some(&[last_byte]) = chunks.remainder().get(0..1) { sum += ... }
AddRemainderLow(d, sum) ==
    LET r == Remainder(d)
    IN  IF Len(r) >= 1 THEN U32Add(sum, U32FromU16(r[1])) ELSE sum

AddRemainder(d, sum) ==
    LET r == Remainder(d)
    IN  IF Len(r) >= 1
        THEN U32Add(sum, U32FromU16((r[1] * U8Mod) % U16Mod))
        ELSE sum

\* while (sum >> 16) > 0 { sum = (sum & 0xFFFF) + (sum >> 16); }
RECURSIVE FoldCarries(_)
FoldCarries(sum) ==
    IF sum.hi > 0
    THEN FoldCarries(U32Add(U32FromU16(sum.lo), U32FromU16(sum.hi)))
    ELSE sum

\* !(x) for a u16 x
NotU16(x) == (U16Mod - 1) - x

compute_checksum_lowbyte(d) ==
    NotU16(FoldCarries(AddRemainderLow(d, SumChunks(d, 1, U32Zero))).lo)

compute_checksum(d) ==
    NotU16(FoldCarries(AddRemainder(d, SumChunks(d, 1, U32Zero))).lo)

----------------------------------------------------------------------------
(* create_icmp_packet (lines 154-183) *)

\* packet[i] = v (Rust indexes from 0, the sequences here from 1)
SetByte(p, i, v) == [p EXCEPT ![i + 1] = v]

\* packet[2] = 0; packet[3] = 0 (lines 168-169)
ZeroChecksum(p) == SetByte(SetByte(p, 2, 0), 3, 0)

WriteChecksumLittleEndian(p) ==
    LET checksum == compute_checksum(p)
    IN  SetByte(SetByte(p, 2, checksum % U8Mod), 3, (checksum \div U8Mod) % U8Mod)

\* let checksum = compute_checksum(&packet);
\* packet[2] = (checksum >> 8) as u8; packet[3] = (checksum & 0xFF) as u8;
WriteChecksum(p) ==
    LET checksum == compute_checksum(p)
    IN  SetByte(SetByte(p, 2, (checksum \div U8Mod) % U8Mod), 3, checksum % U8Mod)

\* the echo request type of the target's family (lines 157-166)
EchoRequestType(target) == IF target = "V4" THEN 8 ELSE 128

\* vec![0u8; 8 + payload_size]
Zeroes(n) == [i \in 1..n |-> 0]

\* rng.fill(&mut packet[8..]): fill holds the bytes the generator produced
FillPayload(p, fill) == [i \in 1..Len(p) |-> IF i > 8 THEN fill[i - 8] ELSE p[i]]

create_icmp_packet_checksum_first(payload_size, target, fill) ==
    LET p0 == Zeroes(8 + payload_size)
        p1 == SetByte(SetByte(p0, 0, EchoRequestType(target)), 1, 0)
        p2 == ZeroChecksum(p1)
        p3 == SetByte(SetByte(SetByte(SetByte(p2, 4, 0), 5, 1), 6, 0), 7, 1)
    IN  FillPayload(WriteChecksum(p3), fill)

create_icmp_packet(payload_size, target, fill) ==
    LET p0 == Zeroes(8 + payload_size)
        p1 == SetByte(SetByte(p0, 0, EchoRequestType(target)), 1, 0)
        p2 == ZeroChecksum(p1)
        p3 == SetByte(SetByte(SetByte(SetByte(p2, 4, 0), 5, 1), 6, 0), 7, 1)
        p4 == FillPayload(p3, fill)
    IN  WriteChecksum(p4)

----------------------------------------------------------------------------
(* create_socket (lines 129-152) *)

\* the system calls of create_socket that can fail, and "none"
SocketFailures == {"none", "socket", "read_timeout", "write_timeout", "ttl"}

NoSocket == [domain |-> "none", protocol |-> "none", opts |-> {}]

\* Each option set on the socket is a pair <<option, value>>; an option that
\* was never set keeps the operating system's default and has no pair.
\* socket2: set_ttl sets IP_TTL, set_multicast_ttl_v4 sets IP_MULTICAST_TTL
\* (set_unicast_hops_v6, which sets IPV6_UNICAST_HOPS, is never called).
TtlOption(target) == IF target = "V6" THEN "IP_TTL" ELSE "IP_MULTICAST_TTL"

\* fail names the first call that returns an error (the ? operator returns it)
create_socket(target, ttl, timeout, fail) ==
    LET domain == IF target = "V4" THEN "IPV4" ELSE "IPV6"
        protocol == IF target = "V4" THEN "ICMPV4" ELSE "ICMPV6"
        opts == {<<"SO_RCVTIMEO", timeout>>, <<"SO_SNDTIMEO", timeout>>,
                 <<TtlOption(target), ttl>>}
    IN  IF fail = "none"
        THEN [ok |-> TRUE,
              socket |-> [domain |-> domain, protocol |-> protocol, opts |-> opts]]
        ELSE [ok |-> FALSE, socket |-> NoSocket]

----------------------------------------------------------------------------
(* Durations *)

NanosPerMilli == 1000000

\* Duration::as_millis: whole milliseconds, the rest dropped
as_millis(d) == d \div NanosPerMilli

\* Duration::MAX, here the largest number TLC represents: it only has to be
\* at least every round-trip time
DurationMax == 2147483647
DurationZero == 0

DMin(a, b) == IF a <= b THEN a ELSE b
DMax(a, b) == IF a >= b THEN a ELSE b

\* the elapsed times a reply can take (start.elapsed(), line 217)
RTTs == {10700000, 20700000, 30700000}

----------------------------------------------------------------------------
(* run_ring (lines 60-127) and send_and_receive_ring (lines 205-218) *)

\* io::Result<Duration>
Ok(rtt) == [ok |-> TRUE, rtt |-> rtt, err |-> "none"]
Err(e) == [ok |-> FALSE, rtt |-> DurationZero, err |-> e]
NoResult == [ok |-> FALSE, rtt |-> DurationZero, err |-> "unset"]

\* the payload sizes and filler bytes of the runs followed
RunSizes == {0, 1}
RunFill == {255}

\* the defaults of main (lines 29-30)
DefaultTimeout == 1000
DefaultTtl == 128

Requests ==
    [target : {"V4", "V6"}, count : (0 - 1)..MaxCount, packet_size : RunSizes,
     timeout : {DefaultTimeout}, ttl : {DefaultTtl}, continuous : BOOLEAN]

IdleCodec == data = <<>> /\ cres = [op |-> "none"]

RunInit(requests) ==
    /\ req \in requests
    /\ pc = "start"
    /\ packet = <<>>
    /\ socket = NoSocket
    /\ count = req.count
    /\ sent = 0
    /\ received = 0
    /\ min_rtt = DurationMax
    /\ max_rtt = DurationZero
    /\ total_rtt = DurationZero
    /\ result = NoResult
    /\ out = <<>>
    /\ outcomes = <<>>
    /\ slept = 0
    /\ IdleCodec

Init == RunInit(Requests)

\* lines 61-73: build the packet, open the socket (a failure panics in expect)
RunRingStart ==
    /\ pc = "start"
    /\ \E fill \in SeqsOfLen(RunFill, req.packet_size), fail \in SocketFailures :
          LET s == create_socket(req.target, req.ttl, req.timeout, fail)
          IN  /\ packet' = create_icmp_packet(req.packet_size, req.target, fill)
              /\ socket' = s.socket
              /\ pc' = IF s.ok THEN "loop_head" ELSE "panicked"
    /\ UNCHANGED <<req, count, sent, received, min_rtt, max_rtt, total_rtt,
                   result, out, outcomes, slept, data, cres>>

LoopCondIgnoresContinuous == count > 0

LoopCondInclusive == req.continuous \/ count >= 0

\* while continuous || count > 0 (line 75)
LoopCond == req.continuous \/ count > 0

\* lines 206-208: the loop is entered and the packet is sent; a send error
\* returns at once (the ? of line 208), otherwise the receive is pending
SendPacket ==
    /\ pc = "loop_head"
    /\ LoopCond
    /\ sent < MaxCount
    /\ \E send_ok \in BOOLEAN :
          IF send_ok
          THEN pc' = "sent" /\ result' = NoResult
          ELSE pc' = "returned" /\ result' = Err("send")
    /\ UNCHANGED <<req, packet, socket, count, sent, received, min_rtt, max_rtt,
                   total_rtt, out, outcomes, slept, data, cres>>

\* lines 210-217: the blocking receive ends with a datagram, with the read
\* timeout or with another error
Receive ==
    /\ pc = "sent"
    /\ \E r \in {Ok(t) : t \in RTTs} \cup {Err("timeout"), Err("recv")} :
          result' = r
    /\ pc' = "returned"
    /\ UNCHANGED <<req, packet, socket, count, sent, received, min_rtt, max_rtt,
                   total_rtt, out, outcomes, slept, data, cres>>

ReplyLine(rtt) ==
    [line |-> "reply", target |-> req.target, bytes |-> req.packet_size,
     time |-> as_millis(rtt), ttl |-> req.ttl]
TimeoutLine == [line |-> "timeout"]

\* if count > 0 || continuous { sleep } (line 100)
SleepsAlways(c) == TRUE

Sleeps(c) == c > 0 \/ req.continuous

\* if let Ok(rtt) = result (line 78)
CountsAsReplyAnyReceive(r) == r.ok \/ r.err = "recv"

CountsAsReply(r) == r.ok

\* if !continuous { count -= 1; } (lines 96-98)
NextCountStuck(c) == c

NextCount(c) == IF ~req.continuous THEN c - 1 ELSE c

\* min_rtt = min_rtt.min(rtt) (line 81)
FoldMinKeepsLast(m, rtt) == rtt

FoldMin(m, rtt) == DMin(m, rtt)

\* lines 78-102: fold the result of the attempt into the statistics
FoldResult ==
    /\ pc = "returned"
    /\ IF CountsAsReply(result)
       THEN /\ received' = received + 1
            /\ total_rtt' = total_rtt + result.rtt
            /\ min_rtt' = FoldMin(min_rtt, result.rtt)
            /\ max_rtt' = DMax(max_rtt, result.rtt)
            /\ out' = Append(out, ReplyLine(result.rtt))
       ELSE /\ out' = Append(out, TimeoutLine)
            /\ UNCHANGED <<received, total_rtt, min_rtt, max_rtt>>
    /\ sent' = sent + 1
    /\ count' = NextCount(count)
    /\ pc' = IF Sleeps(count') THEN "sleeping" ELSE "loop_head"
    /\ outcomes' = Append(outcomes, result)
    /\ UNCHANGED <<req, packet, socket, result, slept, data, cres>>

SleepSecs == 1

\* sleep(Duration::from_secs(1)) returns (line 101)
Wake ==
    /\ pc = "sleeping"
    /\ slept' = slept + SleepSecs
    /\ pc' = "loop_head"
    /\ UNCHANGED <<req, packet, socket, count, sent, received, min_rtt, max_rtt,
                   total_rtt, result, out, outcomes, data, cres>>

\* {:.0} of a non-negative quotient: the nearest integer, a tie to the even
\* one (no tie arises with fewer than 8 attempts)
RoundHalfEven(num, den) ==
    LET q == num \div den
        r == num % den
    IN  IF 2 * r < den THEN q
        ELSE IF 2 * r > den THEN q + 1
        ELSE IF q % 2 = 0 THEN q ELSE q + 1

\* lines 111-115
LossPercent(s, r) == IF s > 0 THEN RoundHalfEven(100 * (s - r), s) ELSE 0

StatsLine ==
    [line |-> "stats", sent |-> sent, received |-> received,
     lost |-> sent - received, loss |-> LossPercent(sent, received)]

\* total_rtt.as_millis() / received as u128 (line 124)
Average == as_millis(total_rtt) \div received

RttLine ==
    [line |-> "rtt", min |-> as_millis(min_rtt), max |-> as_millis(max_rtt),
     avg |-> Average]

\* lines 105-126: the loop is left and the statistics are printed
Summary ==
    /\ pc = "loop_head"
    /\ ~LoopCond
    /\ out' = out \o <<StatsLine>> \o (IF received > 0 THEN <<RttLine>> ELSE <<>>)
    /\ pc' = "done"
    /\ UNCHANGED <<req, packet, socket, count, sent, received, min_rtt, max_rtt,
                   total_rtt, result, outcomes, slept, data, cres>>

Next == RunRingStart \/ SendPacket \/ Receive \/ FoldResult \/ Wake \/ Summary

Spec == Init /\ [][Next]_vars

\* One thread runs the program: every call returns (the receive is bounded by
\* the read timeout, the sleep by its duration), so a step that can be taken
\* is taken.
BoundedRequests == {r \in Requests : ~r.continuous}
FairInit == RunInit(BoundedRequests)
FairSpec == FairInit /\ [][Next]_vars /\ WF_vars(Next)

----------------------------------------------------------------------------
(* The codec applied to bounded inputs *)

IdleRun ==
    /\ req = [target |-> "V4", count |-> 0, packet_size |-> 0,
              timeout |-> DefaultTimeout, ttl |-> DefaultTtl, continuous |-> FALSE]
    /\ pc = "off"
    /\ packet = <<>>
    /\ socket = NoSocket
    /\ count = 0
    /\ sent = 0
    /\ received = 0
    /\ min_rtt = DurationMax
    /\ max_rtt = DurationZero
    /\ total_rtt = DurationZero
    /\ result = NoResult
    /\ out = <<>>
    /\ outcomes = <<>>
    /\ slept = 0

CodecInit ==
    /\ data \in Buffers
    /\ cres = [op |-> "none"]
    /\ IdleRun

\* compute_checksum(&data)
Checksum ==
    /\ cres.op = "none"
    /\ cres' = [op |-> "checksum", value |-> compute_checksum(data)]
    /\ UNCHANGED <<data, runVars>>

\* the checksum field of data is zeroed, computed and written back
\* (lines 168-169 and 178-180, on a buffer that has the field)
FillIn ==
    /\ cres.op = "none"
    /\ Len(data) >= 4
    /\ cres' = [op |-> "fill", buf |-> WriteChecksum(ZeroChecksum(data))]
    /\ UNCHANGED <<data, runVars>>

\* create_icmp_packet(data.len(), target), the generator producing data
Build ==
    /\ cres.op = "none"
    /\ \E target \in {"V4", "V6"} :
          cres' = [op |-> "packet", target |-> target,
                   buf |-> create_icmp_packet(Len(data), target, data)]
    /\ UNCHANGED <<data, runVars>>

CodecNext == Checksum \/ FillIn \/ Build

CodecSpec == CodecInit /\ [][CodecNext]_vars

----------------------------------------------------------------------------
(* The Internet checksum of RFC 1071, stated arithmetically *)

\* the k-th 16-bit big-endian word of d, a missing last byte read as zero
PaddedWord(d, k) == d[2 * k - 1] * 256 + (IF 2 * k <= Len(d) THEN d[2 * k] ELSE 0)

RECURSIVE WordTotal(_, _)
WordTotal(d, n) == IF n = 0 THEN 0 ELSE PaddedWord(d, n) + WordTotal(d, n - 1)

\* the one's-complement sum of the words: the total with every carry out of
\* bit 15 added back in, that is the total modulo 65535 kept in 1..65535
\* unless the total is zero
OnesComplementSum(d) ==
    LET t == WordTotal(d, (Len(d) + 1) \div 2)
    IN  IF t = 0 THEN 0 ELSE ((t - 1) % 65535) + 1

InternetChecksum(d) == 65535 - OnesComplementSum(d)

----------------------------------------------------------------------------
(* Properties *)

\* C1: compute_checksum returns the RFC 1071 checksum of every byte sequence
\* (empty, even, odd length): 0xF7FD for the 8-byte vector, and the odd
\* vector's trailing 0x01 counted as the word 0x0100.
C1_ChecksumIsRfc1071 ==
    cres.op = "checksum" =>
        /\ cres.value = InternetChecksum(data)
        /\ data = Vec8 => cres.value = 63485
        /\ data = Vec3 => cres.value = 65535 - (2048 + 256)

C1_Witness == cres.op = "checksum" /\ data = Vec8 /\ cres.value = 63485

\* C2: a buffer whose checksum field was zeroed, computed and written back
\* big-endian has checksum 0x0000, and is the input outside the field.
C2_FilledBufferVerifies ==
    cres.op = "fill" =>
        /\ compute_checksum(cres.buf) = 0
        /\ Len(cres.buf) = Len(data)
        /\ \A i \in 1..Len(data) : i \notin {3, 4} => cres.buf[i] = data[i]

C2_Witness ==
    /\ cres.op = "fill"
    /\ data = <<255, 255, 1, 1, 255>>
    /\ compute_checksum(cres.buf) = 0
    /\ <<cres.buf[3], cres.buf[4]>> # <<0, 0>>

\* C3: create_icmp_packet returns 8 + p bytes: type 8 (IPv4) or 128 (IPv6),
\* code 0, identifier and sequence 0,1,0,1, and in bytes 2-3 the big-endian
\* checksum of the packet with bytes 2-3 zeroed.
C3_PacketWellFormed ==
    cres.op = "packet" =>
        LET b == cres.buf
        IN  /\ Len(b) = 8 + Len(data)
            /\ b[1] = (IF cres.target = "V4" THEN 8 ELSE 128)
            /\ b[2] = 0
            /\ SubSeq(b, 5, 8) = <<0, 1, 0, 1>>
            /\ b[3] * 256 + b[4] = compute_checksum([b EXCEPT ![3] = 0, ![4] = 0])

C3_Witness ==
    /\ cres.op = "packet"
    /\ cres.target = "V6"
    /\ data = <<255, 1, 128>>
    /\ Len(cres.buf) = 11
    /\ cres.buf[1] = 128

\* the attempts that ended with a reply
Replies == {i \in 1..Len(outcomes) : outcomes[i].ok}

RECURSIVE RttTotal(_)
RttTotal(n) ==
    IF n = 0 THEN 0
    ELSE (IF outcomes[n].ok THEN outcomes[n].rtt ELSE 0) + RttTotal(n - 1)

Smallest(S) == CHOOSE x \in S : \A y \in S : x <= y
Largest(S) == CHOOSE x \in S : \A y \in S : x >= y

\* C4: the summary of a finished run reports sent = attempts, received =
\* replies, lost = sent - received, loss = 100 * lost / sent (printed to the
\* nearest whole percent), and the smallest, the largest and the
\* total-divided-by-received reply RTT in whole milliseconds.
C4_SummaryMatchesOutcomes ==
    pc = "done" =>
        LET n == Len(outcomes)
            r == Cardinality(Replies)
            rtts == {outcomes[i].rtt : i \in Replies}
            stats == out[n + 1]
        IN  /\ stats.line = "stats"
            /\ stats.sent = n
            /\ stats.received = r
            /\ stats.lost = n - r
            /\ n > 0 => /\ 2 * (stats.loss * n - 100 * (n - r)) <= n
                        /\ 2 * (100 * (n - r) - stats.loss * n) <= n
            /\ r = 0 => Len(out) = n + 1
            /\ r > 0 =>
                  /\ Len(out) = n + 2
                  /\ out[n + 2] =
                        [line |-> "rtt",
                         min |-> Smallest(rtts) \div 1000000,
                         max |-> Largest(rtts) \div 1000000,
                         avg |-> (RttTotal(n) \div 1000000) \div r]

C4_Witness ==
    /\ pc = "done"
    /\ outcomes = <<Ok(10700000), Err("timeout"), Ok(30700000), Ok(20700000)>>
    /\ out[5] = [line |-> "stats", sent |-> 4, received |-> 3, lost |-> 1, loss |-> 25]
    /\ out[6] = [line |-> "rtt", min |-> 10, max |-> 30, avg |-> 20]

\* C5: a failed attempt (receive timeout, send error, other receive error)
\* prints the timeout line, increments sent, leaves received and the RTT
\* statistics alone and goes on to the sleep or the loop head; the run never
\* panics once the loop has started.
C5_FailureIsALostPacket ==
    /\ [](pc = "panicked" => sent = 0 /\ outcomes = <<>> /\ out = <<>>)
    /\ [][(pc = "returned" /\ result.err \in {"send", "timeout", "recv"}) =>
            /\ out' = Append(out, [line |-> "timeout"])
            /\ sent' = sent + 1
            /\ UNCHANGED <<received, min_rtt, max_rtt, total_rtt>>
            /\ pc' = (IF req.continuous \/ count' > 0 THEN "sleeping"
                      ELSE "loop_head")]_vars

C5_Witness ==
    /\ pc = "sleeping"
    /\ outcomes = <<Err("send"), Err("recv"), Err("timeout")>>
    /\ sent = 3
    /\ received = 0
    /\ out = <<[line |-> "timeout"], [line |-> "timeout"], [line |-> "timeout"]>>

\* C6: with count 0 and no continuous flag no attempt is made, sent and
\* received stay 0, the loss is printed as 0% and no RTT line is printed.
C6_ZeroAttempts ==
    (~req.continuous /\ req.count = 0) =>
        /\ pc \in {"start", "loop_head", "done", "panicked"}
        /\ sent = 0 /\ received = 0 /\ outcomes = <<>>
        /\ pc = "done" =>
              out = <<[line |-> "stats", sent |-> 0, received |-> 0,
                       lost |-> 0, loss |-> 0]>>

C6_Witness ==
    /\ ~req.continuous /\ req.count = 0 /\ pc = "done"
    /\ Len(out) = 1 /\ out[1].loss = 0

\* C7: in continuous mode, whatever count is, count is never decremented, the
\* summary is never reached, and at the loop head the next attempt is made.
C7_ContinuousNeverFinishes ==
    req.continuous =>
        /\ count = req.count
        /\ pc # "done"
        /\ \A i \in 1..Len(out) : out[i].line \in {"reply", "timeout"}
        /\ (pc = "loop_head" /\ sent < MaxCount) => ENABLED SendPacket
        /\ ~ENABLED Summary

C7_Witness ==
    /\ req.continuous /\ req.count = 0 /\ pc = "loop_head" /\ sent = 3

\* the option that governs the TTL of the echo requests sent to the target
OutgoingTtlOption(target) == IF target = "V4" THEN "IP_TTL" ELSE "IPV6_UNICAST_HOPS"

\* C8: after create_socket succeeds the IPv4 TTL (IPv4 target) or the IPv6
\* hop limit (IPv6 target) is the requested ttl and both timeouts are the
\* requested timeout.
C8_SocketOptions ==
    pc \in {"loop_head", "sent", "returned", "sleeping", "done"} =>
        /\ <<OutgoingTtlOption(req.target), req.ttl>> \in socket.opts
        /\ <<"SO_RCVTIMEO", req.timeout>> \in socket.opts
        /\ <<"SO_SNDTIMEO", req.timeout>> \in socket.opts

StatsLines == Cardinality({i \in 1..Len(out) : out[i].line = "stats"})

\* C9: a bounded run with count = n >= 1 makes exactly n attempts, sent
\* counting each, then finishes with sent = n and one summary; at the loop
\* head sent + count = n and received <= sent.
C9_BoundedRunFinishes ==
    /\ []((~req.continuous /\ req.count >= 1) =>
            /\ sent = Len(outcomes)
            /\ pc = "loop_head" => (sent + count = req.count /\ received <= sent)
            /\ pc = "done" => (sent = req.count /\ StatsLines = 1)
            /\ pc # "done" => StatsLines = 0)
    /\ ((~req.continuous /\ req.count >= 1 /\ pc = "loop_head") ~> pc = "done")

C9_Witness ==
    /\ ~req.continuous /\ req.count = 3 /\ pc = "done"
    /\ sent = 3 /\ received = 1 /\ StatsLines = 1

\* C10: attempts are sequential (idle, sent, returned, idle), a one-second
\* sleep lies between two consecutive attempts, a bounded run of n >= 1
\* attempts sleeps n - 1 times and a continuous run after every attempt.
C10_SequentialWithSleeps ==
    /\ [](/\ pc \in {"sent", "returned"} => slept = sent * 1
          /\ (pc = "done" /\ req.count >= 1) => slept = (req.count - 1) * 1
          /\ (req.continuous /\ pc = "loop_head") => slept = sent * 1)
    /\ [][/\ pc' = "sent" => pc = "loop_head"
          /\ pc = "sent" => pc' = "returned"
          /\ pc = "returned" => pc' \in {"sleeping", "loop_head"}
          /\ pc = "sleeping" => pc' = "loop_head"
          /\ pc' = "returned" => pc \in {"sent", "loop_head"}]_vars

C10_Witness ==
    /\ ~req.continuous /\ req.count = 3 /\ pc = "done" /\ slept = 2 /\ sent = 3

============================================================================
